---- MODULE Spec2Model ----
(***************************************************************************)
(* Model of symmetric-key-exercise (src/src/lib.rs): CommonEncryptionOpts  *)
(* with its encrypt and decrypt operations on one ciphertext file.         *)
(*                                                                         *)
(* A String is a sequence of Unicode scalar values (code points); bytes    *)
(* are 0..255.  String::into_bytes / String::len are UTF-8, `u8 as char`   *)
(* and `char as u8` are the Rust casts.  The XChaCha20Poly1305 AEAD of the *)
(* chacha20poly1305 crate is modelled as an ideal AEAD: a ciphertext       *)
(* opens exactly under the key and nonce it was sealed with, and only if   *)
(* neither its body nor its 16-byte tag were altered.                      *)
(***************************************************************************)
EXTENDS Integers, Sequences, FiniteSets, TLC

VARIABLES
    opts,      \* Some(CommonEncryptionOpts) of the running process, else None
    file,      \* the encrypted_file: None while absent, else Some(ciphertext)
    last,      \* the call made on opts: operation, result, steps it went through
    sealedBy,  \* the encrypt call that last returned Ok: its opts, message, result
    damage     \* alterations made to the file since it was last written

vars == <<opts, file, last, sealedBy, damage>>

(***************************************************************************)
(* Program constants                                                       *)
(***************************************************************************)
MAX_KEY_LENGTH == 32
NONCE_LENGTH == 24
\* Poly1305 tag appended to the ciphertext by the AEAD
TAG_LENGTH == 16

(***************************************************************************)
(* Bounds of the model                                                     *)
(***************************************************************************)
\* messages are the prefixes of Text of at most MaxMsgLen characters
MaxMsgLen == 2
\* ASCII passphrases and nonce strings are up to Margin bytes past the limit
Margin == 1
\* alterations of the file by others between two writes
MaxDamage == 1

(***************************************************************************)
(* Strings, bytes, Option and Result                                       *)
(***************************************************************************)
Rep(c, n) == [i \in 1..n |-> c]

None == <<>>
Some(x) == <<x>>
is_none(o) == o = <<>>
unwrap(o) == o[1]

Ok(v) == [ok |-> TRUE, val |-> v, err |-> <<>>]
Err(e) == [ok |-> FALSE, val |-> <<>>, err |-> e]

\* SimpleCipherError variants; Chacha wraps aead::Error, a unit struct
KeyTooLong(n) == <<"KeyTooLong", n>>
NonceTooLong(n) == <<"NonceTooLong", n>>
NonceGenerate == <<"NonceGenerate">>
NonceChoiceUndeteremined == <<"NonceChoiceUndeteremined">>
Chacha == <<"Chacha">>
Utf8Conversion == <<"Utf8Conversion">>
IO == <<"IO">>

\* UTF-8 encoding of one char
encode_utf8(c) ==
    IF c < 128 THEN <<c>>
    ELSE IF c < 2048 THEN <<192 + (c \div 64), 128 + (c % 64)>>
    ELSE IF c < 65536 THEN <<224 + (c \div 4096), 128 + ((c \div 64) % 64), 128 + (c % 64)>>
    ELSE <<240 + (c \div 262144), 128 + ((c \div 4096) % 64),
           128 + ((c \div 64) % 64), 128 + (c % 64)>>

RECURSIVE into_bytes(_)
\* String::into_bytes: the UTF-8 bytes of the string
into_bytes(s) ==
    IF s = <<>> THEN <<>> ELSE encode_utf8(Head(s)) \o into_bytes(Tail(s))

\* String::len: length in bytes
str_len(s) == Len(into_bytes(s))

IsCont(b) == b >= 128 /\ b < 192

RECURSIVE from_utf8(_)
\* String::from_utf8: Ok(string) when the bytes are valid UTF-8, else the
\* FromUtf8Error (overlong forms, surrogates, and stray bytes are invalid)
from_utf8(b) ==
    IF b = <<>> THEN Ok(<<>>)
    ELSE
      LET b1 == b[1]
          n == IF b1 < 128 THEN 1
               ELSE IF b1 >= 194 /\ b1 < 224 THEN 2
               ELSE IF b1 >= 224 /\ b1 < 240 THEN 3
               ELSE IF b1 >= 240 /\ b1 < 245 THEN 4
               ELSE 0
      IN IF n = 0 \/ Len(b) < n \/ \E i \in 2..n : ~IsCont(b[i]) THEN Err(Utf8Conversion)
         ELSE
           LET c == IF n = 1 THEN b1
                    ELSE IF n = 2 THEN (b1 - 192) * 64 + (b[2] - 128)
                    ELSE IF n = 3 THEN (b1 - 224) * 4096 + (b[2] - 128) * 64 + (b[3] - 128)
                    ELSE (b1 - 240) * 262144 + (b[2] - 128) * 4096
                         + (b[3] - 128) * 64 + (b[4] - 128)
               valid == /\ (n = 3 => c >= 2048 /\ ~(c >= 55296 /\ c < 57344))
                        /\ (n = 4 => c >= 65536 /\ c < 1114112)
               rest == from_utf8(SubSeq(b, n + 1, Len(b)))
           IN IF ~valid THEN Err(Utf8Conversion)
              ELSE IF ~rest.ok THEN rest
              ELSE Ok(<<c>> \o rest.val)

(***************************************************************************)
(* Inputs: passphrases, nonce strings, messages, outcomes of the rng       *)
(***************************************************************************)
\* passphrases: 'b' x 31 and the same followed by NUL (32 bytes, pads to the
\* same key), 16 x U+00E9 (32 bytes), 17 x U+00E9 (34 bytes), and ASCII ones
\* past the limit
KeyStrings ==
    {Rep(98, MAX_KEY_LENGTH - 1), Rep(98, MAX_KEY_LENGTH - 1) \o <<0>>,
     Rep(233, 16), Rep(233, 17)}
      \cup {Rep(98, MAX_KEY_LENGTH + i) : i \in 1..Margin}

\* --nonce strings: 'a' x 24, U+00E9 alone (2 bytes), 13 x U+00E9 (26 bytes),
\* and ASCII ones past the limit
NonceStrings ==
    {Rep(97, NONCE_LENGTH), <<233>>, Rep(233, 13)}
      \cup {Rep(97, NONCE_LENGTH + i) : i \in 1..Margin}

NonceArgs == {None} \cup {Some(s) : s \in NonceStrings}

\* a text of 2-, 1- and 3-byte characters; the messages are its prefixes
Text == <<233, 97, 8364, 122>>

Messages == {SubSeq(Text, 1, n) : n \in 0..MaxMsgLen}

OptsSet ==
    [key : KeyStrings, no_nonce : BOOLEAN, generate_nonce : BOOLEAN, nonce : NonceArgs]

\* the corpus choose_multiple draws from: a..z without n (o is listed twice)
NonceAlphabet == (97..122) \ {110}

\* outcomes of choose_multiple(&mut rng, NONCE_LENGTH): every string of
\* NONCE_LENGTH corpus letters can come out; the model draws from these
GenChoices ==
    {g \in {[i \in 1..NONCE_LENGTH |-> IF i <= h THEN 97 ELSE 122] :
               h \in {NONCE_LENGTH \div 2, NONCE_LENGTH}} :
       \A i \in 1..NONCE_LENGTH : g[i] \in NonceAlphabet}

(***************************************************************************)
(* Key and nonce derivation                                                *)
(***************************************************************************)
\* (variant) the length test rejects 32 bytes too
get_key_from_string_ge(self) ==
    LET key == into_bytes(self.key)
    IN IF Len(key) >= MAX_KEY_LENGTH THEN Err(KeyTooLong(Len(key)))
       ELSE Ok(key \o Rep(0, MAX_KEY_LENGTH - Len(key)))

\* (variant) the key is taken from the padding alone
get_key_from_string_padding(self) ==
    LET key == into_bytes(self.key)
    IN IF Len(key) > MAX_KEY_LENGTH THEN Err(KeyTooLong(Len(key)))
       ELSE Ok(Rep(0, MAX_KEY_LENGTH))

\* get_key_from_string: the passphrase bytes padded with zeros to 32 bytes
get_key_from_string(self) ==
    LET key == into_bytes(self.key)
    IN IF Len(key) > MAX_KEY_LENGTH THEN Err(KeyTooLong(Len(key)))
       ELSE Ok(key \o Rep(0, MAX_KEY_LENGTH - Len(key)))

HexDigit(d) == IF d < 10 THEN 48 + d ELSE 87 + d

\* (variant) the nonce is printed as two hex digits per byte
stringify_nonce_hex(nonce) ==
    [i \in 1..(2 * Len(nonce)) |->
       IF i % 2 = 1 THEN HexDigit(nonce[(i + 1) \div 2] \div 16)
                    ELSE HexDigit(nonce[i \div 2] % 16)]

\* stringify_nonce: every byte becomes the char of the same code point
stringify_nonce(nonce) == [i \in 1..Len(nonce) |-> nonce[i]]

\* nonce_from_string: the length test is on the bytes of the string, the
\* nonce is made of its chars, each truncated to u8, then padded with zeros
nonce_from_string(nonce) ==
    IF str_len(nonce) > NONCE_LENGTH THEN Err(NonceTooLong(str_len(nonce)))
    ELSE LET v == [i \in 1..Len(nonce) |-> nonce[i] % 256]
         IN Ok(v \o Rep(0, NONCE_LENGTH - Len(v)))

\* (variant) with no source chosen the nonce defaults to zeros
nonce_default_zero(self, g) ==
    IF self.no_nonce THEN Ok(Rep(0, NONCE_LENGTH))
    ELSE IF self.generate_nonce THEN Ok(into_bytes(g))
    ELSE IF ~is_none(self.nonce) THEN nonce_from_string(unwrap(self.nonce))
    ELSE Ok(Rep(0, NONCE_LENGTH))

\* CommonEncryptionOpts::nonce; g is what the rng draws if it is asked
nonce(self, g) ==
    IF ~self.no_nonce /\ is_none(self.nonce) /\ ~self.generate_nonce
      THEN Err(NonceChoiceUndeteremined)
    ELSE IF self.no_nonce THEN Ok(Rep(0, NONCE_LENGTH))
    ELSE IF self.generate_nonce THEN Ok(into_bytes(g))
    ELSE IF ~is_none(self.nonce) THEN nonce_from_string(unwrap(self.nonce))
    ELSE Err(NonceChoiceUndeteremined)

\* whether nonce() consults the rng
draws_rng(self) == ~self.no_nonce /\ self.generate_nonce

(***************************************************************************)
(* The AEAD (XChaCha20Poly1305), as an ideal cipher.  A ciphertext is the  *)
(* body, which under (key, nonce) decrypts to `body`, followed by the tag, *)
(* which authenticates `sealed` under (key, nonce); `tag` counts the tag   *)
(* bytes still there and tagok says that none of them was altered.         *)
(***************************************************************************)
\* cipher.encrypt(&nonce, plaintext) with the cipher made from key
Seal(key, n, plaintext) ==
    [key |-> key, nonce |-> n, body |-> plaintext, sealed |-> plaintext,
     tag |-> TAG_LENGTH, tagok |-> TRUE]

\* cipher.decrypt(&nonce, ciphertext): the plaintext, or the opaque aead::Error
Open(key, n, ct) ==
    IF /\ ct.tag = TAG_LENGTH
       /\ ct.tagok
       /\ ct.key = key
       /\ ct.nonce = n
       /\ ct.body = ct.sealed
      THEN Ok(ct.body)
      ELSE Err(Chacha)

\* (variant) the message chars cast to u8, as nonce_from_string does
message_bytes_cast(message) == [i \in 1..Len(message) |-> message[i] % 256]

\* message.into_bytes()
message_bytes(message) == into_bytes(message)

(***************************************************************************)
(* encrypt and decrypt.  Each yields the Result, the file afterwards, the  *)
(* steps the call went through and the key and nonce it derived.           *)
(***************************************************************************)
Outcome(result, f, steps, key, n) ==
    [result |-> result, file |-> f, steps |-> steps, key |-> key, nonce |-> n]

\* encrypt after its key and nonce are derived, with the message bytes the
\* message was turned into: seal, write the file, return the nonce string
seal_and_write(self, key, n, bytes) ==
    Outcome(Ok(IF self.generate_nonce THEN Some(stringify_nonce(n)) ELSE None),
            Some(Seal(key, n, bytes)),
            <<"key", "nonce", "seal", "write">>, Some(key), Some(n))

\* an empty file, as File::create leaves it
EmptyFile ==
    [key |-> <<>>, nonce |-> <<>>, body |-> <<>>, sealed |-> <<>>, tag |-> 0, tagok |-> TRUE]

\* (variant) the file is created before the key and nonce are derived
encrypt_create_first(self, message, g, f) ==
    LET key == get_key_from_string(self)
    IN IF ~key.ok THEN Outcome(Err(key.err), Some(EmptyFile), <<"write", "key">>, None, None)
       ELSE
         LET n == nonce(self, g)
         IN IF ~n.ok
              THEN Outcome(Err(n.err), Some(EmptyFile), <<"write", "key", "nonce">>,
                           Some(key.val), None)
              ELSE seal_and_write(self, key.val, n.val, message_bytes(message))

\* CommonEncryptionOpts::encrypt; f is the file before the call
encrypt(self, message, g, f) ==
    LET key == get_key_from_string(self)
    IN IF ~key.ok THEN Outcome(Err(key.err), f, <<"key">>, None, None)
       ELSE
         LET n == nonce(self, g)
         IN IF ~n.ok
              THEN Outcome(Err(n.err), f, <<"key", "nonce">>, Some(key.val), None)
              ELSE seal_and_write(self, key.val, n.val, message_bytes(message))

\* (variant) a ciphertext that does not authenticate is decrypted all the same
open_and_decode_unverified(key, n, f) ==
    IF is_none(f)
      THEN Outcome(Err(IO), f, <<"key", "nonce", "read">>, Some(key), Some(n))
      ELSE Outcome(from_utf8(unwrap(f).body), f,
                   <<"key", "nonce", "read", "open", "utf8">>, Some(key), Some(n))

\* decrypt after its key and nonce are derived: read the file, open it, and
\* turn the plaintext into a String
open_and_decode(key, n, f) ==
    IF is_none(f)
      THEN Outcome(Err(IO), f, <<"key", "nonce", "read">>, Some(key), Some(n))
    ELSE
      LET plaintext == Open(key, n, unwrap(f))
      IN IF ~plaintext.ok
           THEN Outcome(Err(plaintext.err), f, <<"key", "nonce", "read", "open">>,
                        Some(key), Some(n))
           ELSE Outcome(from_utf8(plaintext.val), f,
                        <<"key", "nonce", "read", "open", "utf8">>, Some(key), Some(n))

\* decrypt from its key derivation on
derive_and_open(self, f) ==
    LET key == get_key_from_string(self)
    IN IF ~key.ok THEN Outcome(Err(key.err), f, <<"key">>, None, None)
       ELSE
         LET n == nonce(self, <<>>)
         IN IF ~n.ok
              THEN Outcome(Err(n.err), f, <<"key", "nonce">>, Some(key.val), None)
              ELSE open_and_decode(key.val, n.val, f)

\* (variant) generate_nonce is tested after the key is derived
decrypt_key_first(self, f) ==
    LET key == get_key_from_string(self)
    IN IF ~key.ok THEN Outcome(Err(key.err), f, <<"key">>, None, None)
       ELSE IF self.generate_nonce
         THEN Outcome(Err(NonceGenerate), f, <<"key">>, Some(key.val), None)
       ELSE derive_and_open(self, f)

\* CommonEncryptionOpts::decrypt; f is the file
decrypt(self, f) ==
    IF self.generate_nonce THEN Outcome(Err(NonceGenerate), f, <<>>, None, None)
    ELSE derive_and_open(self, f)

(***************************************************************************)
(* The state machine                                                       *)
(***************************************************************************)
NoCall ==
    [op |-> "none", message |-> None, result |-> Ok(None), steps |-> <<>>,
     key |-> None, nonce |-> None]

Call(op, message, out) ==
    [op |-> op, message |-> message, result |-> out.result, steps |-> out.steps,
     key |-> out.key, nonce |-> out.nonce]

\* the CommonEncryptionOpts of the process that is running
self == unwrap(opts)

Init ==
    /\ opts = None
    /\ file = None
    /\ last = NoCall
    /\ sealedBy = None
    /\ damage = 0

\* what bin/encrypt printed: the nonce string the last encrypt returned
Printed == IF is_none(sealedBy) THEN {} ELSE {unwrap(sealedBy).ret}

\* command lines that pass the printed nonce as --nonce, with neither flag
WithPrinted ==
    [key : KeyStrings, no_nonce : {FALSE}, generate_nonce : {FALSE}, nonce : Printed]

\* a binary starts and parses its command line into a CommonEncryptionOpts
Parse(from) ==
    \E o \in from :
      /\ is_none(opts)
      /\ opts' = Some(o)
      /\ UNCHANGED <<file, last, sealedBy, damage>>

SetOpts == Parse(OptsSet \cup WithPrinted)

\* bin/encrypt: opt.shared.encrypt(opt.message)
Encrypt ==
    /\ ~is_none(opts)
    /\ last.op = "none"
    /\ \E message \in Messages :
         \E g \in (IF draws_rng(self) THEN GenChoices ELSE {<<>>}) :
           \E out \in {encrypt(self, message, g, file)} :
              /\ file' = out.file
              /\ last' = Call("encrypt", Some(message), out)
              /\ sealedBy' = IF out.result.ok
                               THEN Some([opts |-> self, message |-> message,
                                          ret |-> out.result.val,
                                          nonce |-> unwrap(out.nonce)])
                               ELSE sealedBy
              /\ damage' = IF out.file = file THEN damage ELSE 0
              /\ UNCHANGED opts

\* bin/decrypt: opt.shared.decrypt()
Decrypt ==
    /\ ~is_none(opts)
    /\ last.op = "none"
    /\ \E out \in {decrypt(self, file)} :
          /\ file' = out.file
          /\ last' = Call("decrypt", None, out)
          /\ UNCHANGED <<opts, sealedBy, damage>>

\* main returns: the process and its CommonEncryptionOpts are gone
Exit ==
    /\ last.op # "none"
    /\ opts' = None
    /\ last' = NoCall
    /\ UNCHANGED <<file, sealedBy, damage>>

Next == SetOpts \/ Encrypt \/ Decrypt \/ Exit

Spec == Init /\ [][Next]_vars

(***************************************************************************)
(* The file in the hands of others: between two runs its bytes can be     *)
(* altered or cut, or replaced by the output of another writer that holds  *)
(* the passphrase and seals bytes that are no UTF-8 text.                  *)
(***************************************************************************)
EnvKeys == {k \in KeyStrings : str_len(k) <= MAX_KEY_LENGTH}

EnvNonces == {None, Some(Rep(97, NONCE_LENGTH)), Some(<<233>>)}

EnvOpts == {o \in OptsSet : o.key \in EnvKeys /\ o.nonce \in EnvNonces /\ ~o.generate_nonce}

\* byte strings that are not valid UTF-8: a stray 0xFF, a lead byte alone
RawTexts == {<<255>>, <<195>>}

FlipBit(b) == IF b % 2 = 0 THEN b + 1 ELSE b - 1

SetOptsEnv == Parse(EnvOpts)

\* one byte of the file is altered: byte i of the body, or a byte of the tag
Flip ==
    /\ is_none(opts)
    /\ ~is_none(file)
    /\ damage < MaxDamage
    /\ LET ct == unwrap(file)
       IN \E i \in 1..(Len(ct.body) + 1) :
            file' = Some(IF i <= Len(ct.body)
                           THEN [ct EXCEPT !.body[i] = FlipBit(@)]
                           ELSE [ct EXCEPT !.tagok = ~@])
    /\ damage' = damage + 1
    /\ UNCHANGED <<opts, last, sealedBy>>

\* the file loses its last byte
Truncate ==
    /\ is_none(opts)
    /\ ~is_none(file)
    /\ damage < MaxDamage
    /\ LET ct == unwrap(file)
       IN /\ Len(ct.body) + ct.tag > 0
          /\ file' = Some(IF ct.tag > 0
                            THEN [ct EXCEPT !.tag = @ - 1]
                            ELSE [ct EXCEPT !.body = SubSeq(@, 1, Len(@) - 1)])
    /\ damage' = damage + 1
    /\ UNCHANGED <<opts, last, sealedBy>>

\* another writer seals raw bytes under a passphrase of ours and the zero nonce
ForeignSeal ==
    \E k \in EnvKeys : \E raw \in RawTexts :
      /\ is_none(opts)
      /\ file' = Some(Seal(get_key_from_string([key |-> k]).val, Rep(0, NONCE_LENGTH), raw))
      /\ sealedBy' = None
      /\ damage' = 0
      /\ UNCHANGED <<opts, last>>

NextEnv == SetOptsEnv \/ Encrypt \/ Decrypt \/ Exit \/ Flip \/ Truncate \/ ForeignSeal

SpecEnv == Init /\ [][NextEnv]_vars

(***************************************************************************)
(* Properties                                                              *)
(***************************************************************************)
ZeroPad(bytes, n) == bytes \o Rep(0, n - Len(bytes))

\* the 32-byte key the specification assigns to a passphrase
PaddedKey(k) == ZeroPad(into_bytes(k), MAX_KEY_LENGTH)

Called == last.op # "none"

\* the nonce sources a CommonEncryptionOpts selects
Sources(o) ==
    (IF o.no_nonce THEN {"zero"} ELSE {})
      \cup (IF o.generate_nonce THEN {"generate"} ELSE {})
      \cup (IF is_none(o.nonce) THEN {} ELSE {"string"})

\* d selects, for decrypt, the nonce that the encrypt call e used: the same
\* no_nonce flag and nonce string, or the string e returned when it generated
MatchingNonce(e, d) ==
    /\ ~d.generate_nonce
    /\ IF e.opts.generate_nonce
         THEN ~d.no_nonce /\ d.nonce = e.ret
         ELSE d.no_nonce = e.opts.no_nonce /\ d.nonce = e.opts.nonce

\* C1: a decrypt, on the file a successful encrypt(m) wrote, with the same
\* passphrase and the matching nonce selection, returns exactly m.
C1_RoundTrip ==
    (last.op = "decrypt" /\ ~is_none(sealedBy)) =>
      LET e == unwrap(sealedBy)
      IN (self.key = e.opts.key /\ MatchingNonce(e, self)) => last.result = Ok(e.message)

C1_Witness ==
    /\ last.op = "decrypt"
    /\ ~is_none(sealedBy)
    /\ LET e == unwrap(sealedBy)
       IN /\ e.opts.generate_nonce /\ ~e.opts.no_nonce
          /\ self.key = e.opts.key
          /\ MatchingNonce(e, self)
          /\ Len(e.message) = 2
          /\ last.result = Ok(e.message)

\* whether the call made derives the key: encrypt always, decrypt unless
\* generate_nonce is set
DerivesKey == last.op = "encrypt" \/ (last.op = "decrypt" /\ ~self.generate_nonce)

\* what key derivation must yield for the passphrase of the call made
KeyDerivedRight ==
    LET n == str_len(self.key)
    IN IF n > MAX_KEY_LENGTH
         THEN last.result = Err(KeyTooLong(n))
         ELSE /\ last.key = Some(PaddedKey(self.key))
              /\ Len(unwrap(last.key)) = MAX_KEY_LENGTH
              /\ (last.result.ok \/ last.result.err[1] # "KeyTooLong")

DerivesFromString ==
    /\ DerivesKey
    /\ str_len(self.key) <= MAX_KEY_LENGTH
    /\ ~self.no_nonce /\ ~self.generate_nonce /\ ~is_none(self.nonce)

\* C3: the nonce derived from a user string s is NonceTooLong(len) iff s is
\* longer than 24 bytes, and otherwise the bytes of s followed by zeros.
C3_NonceFromString ==
    (Called /\ DerivesFromString) =>
      LET s == unwrap(self.nonce)
      IN IF str_len(s) > NONCE_LENGTH
           THEN last.result = Err(NonceTooLong(str_len(s)))
           ELSE last.nonce = Some(ZeroPad(into_bytes(s), NONCE_LENGTH))

\* C4: a decrypt, on the file a successful encrypt wrote, with the matching
\* nonce selection and a passphrase whose padded key differs from the
\* encrypting one, returns the Chacha error.
C4_WrongKeyFailsClosed ==
    (last.op = "decrypt" /\ ~is_none(sealedBy)) =>
      LET e == unwrap(sealedBy)
      IN (/\ MatchingNonce(e, self)
          /\ str_len(self.key) <= MAX_KEY_LENGTH
          /\ PaddedKey(self.key) # PaddedKey(e.opts.key))
           => last.result = Err(Chacha)

C4_Witness ==
    /\ last.op = "decrypt"
    /\ ~is_none(sealedBy)
    /\ LET e == unwrap(sealedBy)
       IN /\ MatchingNonce(e, self)
          /\ str_len(self.key) <= MAX_KEY_LENGTH
          /\ PaddedKey(self.key) # PaddedKey(e.opts.key)
          /\ last.result = Err(Chacha)

\* C5 as stated: every call with no nonce source chosen fails with
\* NonceChoiceUndeteremined, whatever the passphrase.
C5_Undetermined_Original ==
    (Called /\ Sources(self) = {}) => last.result = Err(NonceChoiceUndeteremined)

\* C5 (amended): every call with no nonce source chosen and a passphrase of
\* at most 32 bytes fails with NonceChoiceUndeteremined; with a longer
\* passphrase it fails with KeyTooLong, the key being derived first.
C5_Undetermined ==
    (Called /\ Sources(self) = {}) =>
      last.result = Err(IF str_len(self.key) <= MAX_KEY_LENGTH
                          THEN NonceChoiceUndeteremined
                          ELSE KeyTooLong(str_len(self.key)))

C5_Witness ==
    /\ last.op = "encrypt"
    /\ Sources(self) = {}
    /\ str_len(self.key) <= MAX_KEY_LENGTH
    /\ last.result = Err(NonceChoiceUndeteremined)

\* C6: every decrypt with generate_nonce fails with NonceGenerate and goes
\* through no step: no key or nonce derived, no file read, nothing opened.
C6_DecryptCannotGenerate ==
    (last.op = "decrypt" /\ self.generate_nonce) =>
      /\ last.result = Err(NonceGenerate)
      /\ last.steps = <<>>
      /\ is_none(last.key) /\ is_none(last.nonce)

C6_Witness ==
    /\ last.op = "decrypt"
    /\ self.generate_nonce
    /\ self.no_nonce
    /\ str_len(self.key) > MAX_KEY_LENGTH
    /\ ~is_none(file)
    /\ last.result = Err(NonceGenerate)

Range(seq) == {seq[i] : i \in 1..Len(seq)}

\* C7: a call seals or opens only when exactly one nonce source is selected.
C7_ExactlyOneSource ==
    (Called /\ Range(last.steps) \cap {"seal", "open"} # {}) =>
      Cardinality(Sources(self)) = 1

C10_FileIsLastSealed ==
    file = IF is_none(sealedBy) THEN None
           ELSE LET e == unwrap(sealedBy)
                IN Some(Seal(PaddedKey(e.opts.key), e.nonce, into_bytes(e.message)))

C10_Witness ==
    /\ last.op = "encrypt"
    /\ last.result.ok = FALSE
    /\ last.result.err[1] = "NonceTooLong"
    /\ ~is_none(file)

\* the file is, byte for byte, what the AEAD outputs under key and nonce
Authentic(ct, key, n) == ct = Seal(key, n, ct.body)

\* C8: a decrypt that derived its key and nonce and read a file that does not
\* authenticate returns the one payload-free Chacha error, whatever the
\* cause; a plaintext or Utf8Conversion comes only from an authentic file.
C8_AuthFailureOpaque ==
    (last.op = "decrypt" /\ ~is_none(last.nonce) /\ ~is_none(file)) =>
      LET auth == Authentic(unwrap(file), unwrap(last.key), unwrap(last.nonce))
      IN /\ ~auth => last.result = Err(Chacha)
         /\ last.result.ok => auth
         /\ (~last.result.ok /\ last.result.err = Utf8Conversion) => auth

C8_Witness ==
    /\ last.op = "decrypt"
    /\ ~is_none(last.nonce)
    /\ ~is_none(file)
    /\ damage > 0
    /\ unwrap(file).key = unwrap(last.key)
    /\ unwrap(file).nonce = unwrap(last.nonce)
    /\ unwrap(file).tag < TAG_LENGTH
    /\ last.result = Err(Chacha)

====
